---- MODULE Spec2Model ----
(***************************************************************************)
(* Model of mnmt/trainer/trainer.py: the Trainer's run loop, its training  *)
(* pass, and the evaluation / checkpoint / early-stopping policy (update). *)
(*                                                                         *)
(* Numbers are abstracted as follows.  A validation loss is an integer     *)
(* level in 1..MaxLoss and float('inf') is the level Inf, above all of     *)
(* them.  A validation accuracy is correct/n_examples, carried as the      *)
(* number of correct rows in 0..MaxAcc.  The model's parameters are        *)
(* identified by the number of optimizer steps applied to them.            *)
(* Teacher-forcing ratios are carried in percent.                          *)
(***************************************************************************)
EXTENDS Integers, FiniteSets, Sequences, TLC

\* ---- bounds of the model ----
MaxLoss == 2          \* validation-loss levels 1..MaxLoss
MaxAcc == 1           \* validation accuracy levels 0..MaxAcc
MaxPatience == 2      \* args_feeder.early_stopping_patience in 0..MaxPatience
MaxEpochs == 2        \* args_feeder.total_epochs in 0..MaxEpochs
MaxBatches == 20      \* len(train_iter) in 1..MaxBatches
MaxInterval == 2      \* args_feeder.report_interval in 1..MaxInterval
MaxBurn == 1          \* run's burning_epoch in -1..MaxBurn
MaxSteps == 40        \* total_epochs * len(train_iter), the batches of a whole run
MaxShortBatches == 5  \* len(train_iter) of the runs that can be interrupted
LongEpochs == 22      \* total_epochs of the long runs
MaxRows == 2          \* matching: pred.shape[0] in 1..MaxRows
MaxLen == 2           \* matching: pred.shape[1] = ref.shape[1]

\* ---- program constants ----
EvalEvery == 10       \* the factor of report_interval at trainer.py:277
TfrFloor == 20        \* 0.2 at trainer.py:119, in percent
InitTfr == 80         \* self.tfr = 0.8 at trainer.py:96, in percent

Inf == MaxLoss + 1    \* float('inf')
Losses == 1..MaxLoss
Accs == 0..MaxAcc
Criteria == {"LOSS", "ACC"}
NoValue == -1         \* float(-1) of the record's initial fields; "no file" for a checkpoint
None == NoValue - 1   \* a local of run / train that holds no value

Max2(a, b) == IF a >= b THEN a ELSE b

VARIABLES
    args,               \* args_feeder: valid_criterion, early_stopping_patience
    train_len,          \* len(self.train_iter)
    burning_epoch,      \* run's argument
    eval_memory_bank,   \* EvalMemoryBank
    train_memory_bank,  \* TrainMemoryBank
    tfr,                \* self.tfr
    model,              \* the model: parameters (steps applied), mode, teacher_forcing_ratio
    sched_steps,        \* number of scheduler.step calls
    checkpoints,        \* the two checkpoint files: the parameters each holds, or NoValue
    pc,                 \* position of the control flow in run / train
    epoch,              \* next value of run's range(total_epochs)
    i,                  \* number of batches train's loop has taken in this pass
    valid_loss,         \* local valid_loss of run / train
    valid_acc,          \* local valid_acc of run / train
    written,            \* history: checkpoint files written by the most recent update call
    streak,             \* history: number of most recent consecutive update calls with
                        \*          valid_loss > best_valid_loss
    epoch_updates,      \* history: update calls made since the current epoch began
    prev_patience,      \* history: early_stopping_patience before the most recent update call
    spent,              \* history: n_epoch of the first update call that completed a run of
                        \*          early_stopping_patience (>= 1) consecutive update calls
                        \*          with valid_loss > best_valid_loss; NoValue before it
    task,               \* self.task
    aux_record,         \* the auxiliary fields of EvalMemoryBank: best_valid_loss_aux,
                        \*          best_valid_acc_aux
    valid_acc_aux,      \* local valid_acc_aux of run / train
    ratio_before,       \* history: model.teacher_forcing_ratio before the most recent
                        \*          evaluate call; NoValue before the first
    seen,               \* history: the update calls made since the most recent burn-in
                        \*          reset (or construction)
    shape,              \* matching: pred.shape[0], the number of rows
    j,                  \* matching: number of rows its loop has taken
    pred_j,             \* matching: pred[j, :] of the row taken last, token indices
    ref_j,              \* matching: ref[j, :] of the row taken last
    tally,              \* matching's local tally
    same                \* history: rows taken whose token sequences before the first
                        \*          <eos> were identical

vars == <<args, train_len, burning_epoch, eval_memory_bank, train_memory_bank, tfr, model,
          sched_steps, checkpoints, pc, epoch, i, valid_loss, valid_acc, written, streak,
          epoch_updates, prev_patience, spent, task, aux_record, valid_acc_aux,
          ratio_before, seen, shape, j, pred_j, ref_j, tally, same>>

history == <<written, streak, epoch_updates, prev_patience, spent>>

\* what neither run nor train nor update assigns
fixed == <<task, shape, j, pred_j, ref_j, tally, same>>

\* ---- Trainer.__init__ ----
Tasks == {"Single-Main", "Single-Auxiliary", "Multi"}

\* lines 41, 48-49
AuxRecord == [best_valid_loss_aux |-> Inf, best_valid_acc_aux |-> NoValue]

\* history: no update call seen
NothingSeen ==
    [min_loss |-> Inf, loss_params |-> NoValue, max_acc |-> NoValue, acc_loss |-> NoValue,
     acc_epoch |-> NoValue, acc_step |-> NoValue, acc_params |-> NoValue]

EvalMemoryBank(patience) ==
    [best_valid_loss |-> Inf, acc_valid_loss |-> Inf, best_valid_acc |-> NoValue,
     best_valid_epoch |-> NoValue, best_train_step |-> NoValue,
     early_stopping_patience |-> patience]

TrainMemoryBank(total, interval) ==
    [total_epochs |-> total, n_epoch |-> 0, n_steps |-> 0, report_interval |-> interval]

\* A Trainer as __init__ leaves it, run not yet begun: total_epochs drawn from totals and
\* len(train_iter) from lens.
Construct(totals, lens) ==
    /\ args \in [valid_criterion : Criteria, early_stopping_patience : 0..MaxPatience]
    /\ train_len \in lens
    /\ burning_epoch \in -1..MaxBurn
    /\ eval_memory_bank = EvalMemoryBank(args.early_stopping_patience)
    /\ train_memory_bank \in {TrainMemoryBank(t, r) : t \in totals, r \in 1..MaxInterval}
    /\ train_memory_bank.total_epochs * train_len <= MaxSteps
    /\ tfr = InitTfr
    /\ model = [params |-> 0, mode |-> "train", teacher_forcing_ratio |-> InitTfr]
    /\ sched_steps = 0
    /\ checkpoints = [loss |-> NoValue, acc |-> NoValue]
    /\ epoch = 0
    /\ i = 0
    /\ valid_loss = None
    /\ valid_acc = None
    /\ written = {}
    /\ streak = 0
    /\ epoch_updates = 0
    /\ prev_patience = NoValue
    /\ spent = NoValue
    /\ task \in Tasks
    /\ aux_record = AuxRecord
    /\ valid_acc_aux = None
    /\ ratio_before = NoValue
    /\ seen = NothingSeen

\* run is about to begin; matching is not in progress
RunBegins ==
    /\ pc = "loop"
    /\ shape = 0
    /\ j = 0
    /\ pred_j = <<>>
    /\ ref_j = <<>>
    /\ tally = 0
    /\ same = 0

\* lines 70-72: a Trainer of the main task alone (multi_task_ratio = 1)
Init ==
    /\ Construct(0..MaxEpochs, 1..MaxBatches)
    /\ task = "Single-Main"
    /\ RunBegins

\* a Trainer of any task, on short training passes
InitAny ==
    /\ Construct(0..MaxEpochs, 1..MaxShortBatches)
    /\ RunBegins

\* a Trainer of the main task alone, on many epochs of one batch, with no burn-in
InitLong ==
    /\ Construct({LongEpochs}, {1})
    /\ task = "Single-Main"
    /\ burning_epoch = -1
    /\ train_memory_bank.report_interval = 1
    /\ RunBegins

\* ---- Trainer.run, lines 106-111: the burn-in reset ----
\* (mutant) the reset forgets best_valid_loss
BurnInReset_KeepLoss(emb, patience) ==
    [emb EXCEPT !.best_valid_acc = 0,
                !.early_stopping_patience = patience]

BurnInReset(emb, patience) ==
    [emb EXCEPT !.best_valid_loss = Inf,
                !.best_valid_acc = 0,
                !.early_stopping_patience = patience]

\* (mutant) the epoch burning_epoch itself is not reset
RenewRecord_Strict(emb, e, burning, patience) ==
    IF e < burning THEN BurnInReset(emb, patience) ELSE emb

\* (mutant) the reset is applied in every epoch
RenewRecord_Always(emb, e, burning, patience) == BurnInReset(emb, patience)

RenewRecord(emb, e, burning, patience) ==
    IF e <= burning THEN BurnInReset(emb, patience) ELSE emb

\* history: a burn-in reset forgets the update calls seen
RenewSeen(sn, e, burning) == IF e <= burning THEN NothingSeen ELSE sn

\* (mutant) the loop never breaks on patience 0
EarlyStop_Never(emb) == emb.early_stopping_patience < 0

\* line 113
EarlyStop(emb) == emb.early_stopping_patience = 0

\* (mutant) the ratio has no floor
TeacherForcingRatio_NoFloor(e) == 100 - (2 * 10 + 3 * e)

\* line 119: max(1 - (10 + 1.5 e) / 50, 0.2), in percent
TeacherForcingRatio(e) == Max2(100 - (2 * 10 + 3 * e), TfrFloor)

\* ---- Trainer.update ----
\* line 163
LossBranch(loss, emb) == loss <= emb.best_valid_loss

\* (mutant) an accuracy equal to the best is not taken
AccBranch_Strict(acc, emb) == acc > emb.best_valid_acc

\* line 175
AccBranch(acc, emb) == acc >= emb.best_valid_acc

\* (mutant) no floor at 0
DecreasePatience_NoFloor(p) == p - 1

\* (mutant) the floor is 1
DecreasePatience_FloorOne(p) == Max2(p - 1, 1)

\* lines 172-173
DecreasePatience(p) == Max2(p - 1, 0)

\* (mutant) a better loss does not restore the patience
UpdateLoss_NoRestore(emb, patience, loss) ==
    IF loss <= emb.best_valid_loss
    THEN [emb EXCEPT !.best_valid_loss = loss]
    ELSE [emb EXCEPT !.early_stopping_patience = DecreasePatience(@)]

\* (mutant) a worse loss does not cost patience
UpdateLoss_NoDecrement(emb, patience, loss) ==
    IF loss <= emb.best_valid_loss
    THEN [emb EXCEPT !.best_valid_loss = loss,
                     !.early_stopping_patience = patience]
    ELSE emb

\* lines 163-173
UpdateLoss(emb, patience, loss) ==
    IF LossBranch(loss, emb)
    THEN [emb EXCEPT !.best_valid_loss = loss,
                     !.early_stopping_patience = patience]
    ELSE [emb EXCEPT !.early_stopping_patience = DecreasePatience(@)]

\* lines 175-180
UpdateAcc(emb, loss, acc, n_epoch, n_steps) ==
    IF AccBranch(acc, emb)
    THEN [emb EXCEPT !.best_valid_acc = acc,
                     !.acc_valid_loss = loss,
                     !.best_valid_epoch = n_epoch,
                     !.best_train_step = n_steps]
    ELSE emb

\* (mutant) a tie in the loss is not saved
SaveLoss_Strict(criterion, loss, emb) == criterion = "LOSS" /\ loss < emb.best_valid_loss

\* lines 163-168
SaveLoss(criterion, loss, emb) == criterion = "LOSS" /\ LossBranch(loss, emb)

\* (mutant) a tie in the accuracy is not saved
SaveAcc_Strict(criterion, acc, emb) == criterion = "ACC" /\ acc > emb.best_valid_acc

\* (mutant) the best-by-accuracy file is written under either criterion
SaveAcc_AnyCriterion(criterion, acc, emb) == AccBranch(acc, emb)

\* lines 175-183
SaveAcc(criterion, acc, emb) == criterion = "ACC" /\ AccBranch(acc, emb)

\* The record after update(loss, acc): the loss branch, then the accuracy branch.
UpdateRecord(emb, patience, loss, acc, n_epoch, n_steps) ==
    UpdateAcc(UpdateLoss(emb, patience, loss), loss, acc, n_epoch, n_steps)

\* The files torch.save writes in update(loss, acc).
UpdateWrites(criterion, emb, patience, loss, acc) ==
    (IF SaveLoss(criterion, loss, emb) THEN {"loss"} ELSE {})
    \cup (IF SaveAcc(criterion, acc, UpdateLoss(emb, patience, loss)) THEN {"acc"} ELSE {})

\* history: the calls seen, after update(loss, acc) made at (n_epoch, n_steps) with the
\* model's parameters params
See(sn, loss, acc, n_epoch, n_steps, params) ==
    [min_loss |-> IF loss < sn.min_loss THEN loss ELSE sn.min_loss,
     loss_params |-> IF loss <= sn.min_loss THEN params ELSE sn.loss_params,
     max_acc |-> IF acc > sn.max_acc THEN acc ELSE sn.max_acc,
     acc_loss |-> IF acc >= sn.max_acc THEN loss ELSE sn.acc_loss,
     acc_epoch |-> IF acc >= sn.max_acc THEN n_epoch ELSE sn.acc_epoch,
     acc_step |-> IF acc >= sn.max_acc THEN n_steps ELSE sn.acc_step,
     acc_params |-> IF acc >= sn.max_acc THEN params ELSE sn.acc_params]

\* update(valid_loss, valid_acc) as a step of the machine.
Update ==
    LET emb == eval_memory_bank
        files == UpdateWrites(args.valid_criterion, emb, args.early_stopping_patience,
                              valid_loss, valid_acc)
    IN  /\ eval_memory_bank' = UpdateRecord(emb, args.early_stopping_patience, valid_loss,
                                            valid_acc, train_memory_bank.n_epoch,
                                            train_memory_bank.n_steps)
        /\ checkpoints' = [k \in {"loss", "acc"} |->
                              IF k \in files THEN model.params ELSE checkpoints[k]]
        /\ written' = files
        /\ streak' = IF LossBranch(valid_loss, emb) THEN 0 ELSE streak + 1
        /\ epoch_updates' = epoch_updates + 1
        /\ prev_patience' = emb.early_stopping_patience
        /\ spent' = IF /\ spent = NoValue
                       /\ args.early_stopping_patience >= 1
                       /\ streak' >= args.early_stopping_patience
                    THEN train_memory_bank.n_epoch
                    ELSE spent
        /\ seen' = See(seen, valid_loss, valid_acc, train_memory_bank.n_epoch,
                       train_memory_bank.n_steps, model.params)

\* (mutant) update_aux records a better auxiliary accuracy
UpdateAux_Records(aux, acc_aux) ==
    IF acc_aux >= aux.best_valid_acc_aux
    THEN [aux EXCEPT !.best_valid_acc_aux = acc_aux]
    ELSE aux

\* ---- Trainer.update_aux, lines 195-198: it compares and prints ----
UpdateAux(aux, acc_aux) == aux

\* ---- Trainer.evaluate: one whole pass; its result is any loss and accuracy ----
\* line 381: acc_aux is 0 unless the task is Multi
AuxAccs(t) == IF t = "Multi" THEN Accs ELSE {0}

Evaluate(is_test) ==
    /\ model' = [model EXCEPT !.mode = "eval", !.teacher_forcing_ratio = tfr]
    /\ ratio_before' = model.teacher_forcing_ratio
    /\ IF is_test
       THEN UNCHANGED <<valid_loss, valid_acc, valid_acc_aux>>
       ELSE /\ valid_loss' \in Losses
            /\ valid_acc' \in Accs
            /\ valid_acc_aux' \in AuxAccs(task)

\* ---- Trainer.train, lines 261 and 277 ----
ReportDue(batch, interval) == batch % interval = interval - 1
EvalDue(n_steps, interval) == n_steps % (EvalEvery * interval) = 0

\* ---- Trainer.run ----
\* line 103: range(total_epochs) is exhausted
LoopExit ==
    /\ pc = "loop"
    /\ epoch >= train_memory_bank.total_epochs
    /\ pc' = "done"
    /\ UNCHANGED <<args, train_len, burning_epoch, eval_memory_bank, train_memory_bank, tfr,
                   model, sched_steps, checkpoints, epoch, i, valid_loss, valid_acc, history>>
    /\ UNCHANGED <<fixed, aux_record, valid_acc_aux, ratio_before, seen>>

\* lines 103-115: the epoch begins and the loop breaks on patience 0
EarlyStopBreak ==
    /\ pc = "loop"
    /\ epoch < train_memory_bank.total_epochs
    /\ LET emb == RenewRecord(eval_memory_bank, epoch, burning_epoch,
                              args.early_stopping_patience)
       IN  /\ EarlyStop(emb)
           /\ eval_memory_bank' = emb
    /\ train_memory_bank' = [train_memory_bank EXCEPT !.n_epoch = epoch]
    /\ epoch' = epoch + 1
    /\ pc' = "done"
    /\ seen' = RenewSeen(seen, epoch, burning_epoch)
    /\ UNCHANGED <<args, train_len, burning_epoch, tfr, model, sched_steps, checkpoints, i,
                   valid_loss, valid_acc, history>>
    /\ UNCHANGED <<fixed, aux_record, valid_acc_aux, ratio_before>>

\* (mutant) the step counter restarts with every epoch
EpochStart_ResetSteps ==
    /\ pc = "loop"
    /\ epoch < train_memory_bank.total_epochs
    /\ LET emb == RenewRecord(eval_memory_bank, epoch, burning_epoch,
                              args.early_stopping_patience)
       IN  /\ ~EarlyStop(emb)
           /\ eval_memory_bank' = emb
    /\ train_memory_bank' = [train_memory_bank EXCEPT !.n_epoch = epoch, !.n_steps = 0]
    /\ epoch' = epoch + 1
    /\ tfr' = TeacherForcingRatio(epoch)
    /\ model' = [model EXCEPT !.mode = "train", !.teacher_forcing_ratio = tfr']
    /\ i' = 0
    /\ epoch_updates' = 0
    /\ pc' = "train"
    /\ seen' = RenewSeen(seen, epoch, burning_epoch)
    /\ UNCHANGED <<args, train_len, burning_epoch, sched_steps, checkpoints, valid_loss,
                   valid_acc, written, streak, prev_patience, spent>>
    /\ UNCHANGED <<fixed, aux_record, valid_acc_aux, ratio_before>>

\* lines 103-120, 223-224: the epoch begins and its training pass starts
EpochStart ==
    /\ pc = "loop"
    /\ epoch < train_memory_bank.total_epochs
    /\ LET emb == RenewRecord(eval_memory_bank, epoch, burning_epoch,
                              args.early_stopping_patience)
       IN  /\ ~EarlyStop(emb)
           /\ eval_memory_bank' = emb
    /\ train_memory_bank' = [train_memory_bank EXCEPT !.n_epoch = epoch]
    /\ epoch' = epoch + 1
    /\ tfr' = TeacherForcingRatio(epoch)
    /\ model' = [model EXCEPT !.mode = "train", !.teacher_forcing_ratio = tfr']
    /\ i' = 0
    /\ epoch_updates' = 0
    /\ pc' = "train"
    /\ seen' = RenewSeen(seen, epoch, burning_epoch)
    /\ UNCHANGED <<args, train_len, burning_epoch, sched_steps, checkpoints, valid_loss,
                   valid_acc, written, streak, prev_patience, spent>>
    /\ UNCHANGED <<fixed, aux_record, valid_acc_aux, ratio_before>>

\* lines 229-277: one batch of the training pass
TrainBatch ==
    /\ pc = "train"
    /\ i < train_len
    /\ model' = [model EXCEPT !.params = @ + 1]
    /\ train_memory_bank' = [train_memory_bank EXCEPT !.n_steps = @ + 1]
    /\ i' = i + 1
    /\ pc' = IF /\ ReportDue(i, train_memory_bank.report_interval)
                /\ EvalDue(train_memory_bank'.n_steps, train_memory_bank.report_interval)
             THEN "mid_valid"
             ELSE "train"
    /\ UNCHANGED <<args, train_len, burning_epoch, eval_memory_bank, tfr, sched_steps,
                   checkpoints, epoch, valid_loss, valid_acc, history>>
    /\ UNCHANGED <<fixed, aux_record, valid_acc_aux, ratio_before, seen>>

\* line 279
MidValid ==
    /\ pc = "mid_valid"
    /\ Evaluate(FALSE)
    /\ pc' = "mid_test"
    /\ UNCHANGED <<args, train_len, burning_epoch, eval_memory_bank, train_memory_bank, tfr,
                   sched_steps, checkpoints, epoch, i, history>>
    /\ UNCHANGED <<fixed, aux_record, seen>>

\* line 281
MidTest ==
    /\ pc = "mid_test"
    /\ Evaluate(TRUE)
    /\ pc' = "mid_update"
    /\ UNCHANGED <<args, train_len, burning_epoch, eval_memory_bank, train_memory_bank, tfr,
                   sched_steps, checkpoints, epoch, i, history>>
    /\ UNCHANGED <<fixed, aux_record, seen>>

\* line 283 (and line 284: update_aux follows when the task is Multi)
MidUpdate ==
    /\ pc = "mid_update"
    /\ Update
    /\ pc' = IF task = "Multi" THEN "mid_aux" ELSE "mid_sched"
    /\ UNCHANGED <<args, train_len, burning_epoch, train_memory_bank, tfr, model, sched_steps,
                   epoch, i, valid_loss, valid_acc>>
    /\ UNCHANGED <<fixed, aux_record, valid_acc_aux, ratio_before>>

\* line 285
MidUpdateAux ==
    /\ pc = "mid_aux"
    /\ aux_record' = UpdateAux(aux_record, valid_acc_aux)
    /\ pc' = "mid_sched"
    /\ UNCHANGED <<args, train_len, burning_epoch, eval_memory_bank, train_memory_bank, tfr,
                   model, sched_steps, checkpoints, epoch, i, valid_loss, valid_acc, history>>
    /\ UNCHANGED <<fixed, valid_acc_aux, ratio_before, seen>>

\* lines 286-287
MidSched ==
    /\ pc = "mid_sched"
    /\ sched_steps' = sched_steps + 1
    /\ model' = [model EXCEPT !.mode = "train"]
    /\ valid_loss' = None
    /\ valid_acc' = None
    /\ valid_acc_aux' = None
    /\ pc' = "train"
    /\ UNCHANGED <<args, train_len, burning_epoch, eval_memory_bank, train_memory_bank, tfr,
                   checkpoints, epoch, i, history>>
    /\ UNCHANGED <<fixed, aux_record, ratio_before, seen>>

\* line 289: the training pass is complete and train returns
TrainReturn ==
    /\ pc = "train"
    /\ i = train_len
    /\ pc' = "end_valid"
    /\ UNCHANGED <<args, train_len, burning_epoch, eval_memory_bank, train_memory_bank, tfr,
                   model, sched_steps, checkpoints, epoch, i, valid_loss, valid_acc, history>>
    /\ UNCHANGED <<fixed, aux_record, valid_acc_aux, ratio_before, seen>>

\* line 121
EndValid ==
    /\ pc = "end_valid"
    /\ Evaluate(FALSE)
    /\ pc' = "end_update"
    /\ UNCHANGED <<args, train_len, burning_epoch, eval_memory_bank, train_memory_bank, tfr,
                   sched_steps, checkpoints, epoch, i, history>>
    /\ UNCHANGED <<fixed, aux_record, seen>>

\* lines 127-135 (line 128: update_aux comes first when the task is Multi)
EndUpdate ==
    /\ pc = "end_update"
    /\ Update
    /\ IF task = "Multi"
       THEN /\ pc' = "end_aux"
            /\ UNCHANGED <<valid_loss, valid_acc, valid_acc_aux>>
       ELSE /\ pc' = "loop"
            /\ valid_loss' = None
            /\ valid_acc' = None
            /\ valid_acc_aux' = None
    /\ UNCHANGED <<args, train_len, burning_epoch, train_memory_bank, tfr, model, sched_steps,
                   epoch, i>>
    /\ UNCHANGED <<fixed, aux_record, ratio_before>>

\* lines 129-135
EndUpdateAux ==
    /\ pc = "end_aux"
    /\ aux_record' = UpdateAux(aux_record, valid_acc_aux)
    /\ valid_loss' = None
    /\ valid_acc' = None
    /\ valid_acc_aux' = None
    /\ pc' = "loop"
    /\ UNCHANGED <<args, train_len, burning_epoch, eval_memory_bank, train_memory_bank, tfr,
                   model, sched_steps, checkpoints, epoch, i, history>>
    /\ UNCHANGED <<fixed, ratio_before, seen>>

Next ==
    \/ LoopExit
    \/ EarlyStopBreak
    \/ EpochStart
    \/ TrainBatch
    \/ MidValid
    \/ MidTest
    \/ MidUpdate
    \/ MidSched
    \/ TrainReturn
    \/ EndValid
    \/ EndUpdate

Spec == Init /\ [][Next]_vars

SpecLong == InitLong /\ [][Next]_vars

\* ---- KeyboardInterrupt, lines 102 and 136-137 ----
Running == pc \notin {"done", "interrupted"}

\* (mutant) the interrupt takes back the batches of the unfinished epoch
Interrupt_RollsBack ==
    /\ Running
    /\ pc' = "interrupted"
    /\ train_memory_bank' = [train_memory_bank EXCEPT !.n_steps = @ - i]
    /\ UNCHANGED <<args, train_len, burning_epoch, eval_memory_bank, tfr,
                   model, sched_steps, checkpoints, epoch, i, valid_loss, valid_acc, history>>
    /\ UNCHANGED <<fixed, aux_record, valid_acc_aux, ratio_before, seen>>

\* The interrupt arrives between two steps of the loop: run prints and returns.
Interrupt ==
    /\ Running
    /\ pc' = "interrupted"
    /\ UNCHANGED <<args, train_len, burning_epoch, eval_memory_bank, train_memory_bank, tfr,
                   model, sched_steps, checkpoints, epoch, i, valid_loss, valid_acc, history>>
    /\ UNCHANGED <<fixed, aux_record, valid_acc_aux, ratio_before, seen>>

\* The interrupt arrives inside a batch, after optimizer.step() (line 253) and before the
\* step counter is raised (line 258).
InterruptBatch ==
    /\ pc = "train"
    /\ i < train_len
    /\ model' = [model EXCEPT !.params = @ + 1]
    /\ pc' = "interrupted"
    /\ UNCHANGED <<args, train_len, burning_epoch, eval_memory_bank, train_memory_bank, tfr,
                   sched_steps, checkpoints, epoch, i, valid_loss, valid_acc, history>>
    /\ UNCHANGED <<fixed, aux_record, valid_acc_aux, ratio_before, seen>>

\* The interrupt arrives inside evaluate's pass, after lines 322-323 and before line 383.
InterruptEvaluate ==
    /\ pc \in {"mid_valid", "mid_test", "end_valid"}
    /\ model' = [model EXCEPT !.mode = "eval", !.teacher_forcing_ratio = 0]
    /\ ratio_before' = model.teacher_forcing_ratio
    /\ pc' = "interrupted"
    /\ UNCHANGED <<args, train_len, burning_epoch, eval_memory_bank, train_memory_bank, tfr,
                   sched_steps, checkpoints, epoch, i, valid_loss, valid_acc, history>>
    /\ UNCHANGED <<fixed, aux_record, valid_acc_aux, seen>>

NextInterruptible ==
    \/ LoopExit
    \/ EarlyStopBreak
    \/ EpochStart
    \/ TrainBatch
    \/ MidValid
    \/ MidTest
    \/ MidUpdate
    \/ MidUpdateAux
    \/ MidSched
    \/ TrainReturn
    \/ EndValid
    \/ EndUpdate
    \/ EndUpdateAux
    \/ Interrupt
    \/ InterruptBatch
    \/ InterruptEvaluate

SpecInterruptible == InitAny /\ [][NextInterruptible]_vars

\* ---------------------------------------------------------------------------
\* Properties
\* ---------------------------------------------------------------------------
UpdatePcs == {"mid_update", "end_update"}
InEpoch == {"train", "mid_valid", "mid_test", "mid_update", "mid_sched", "end_valid",
            "end_update"}
Patience == eval_memory_bank.early_stopping_patience
MaxP == args.early_stopping_patience

\* C1: in every reachable state early_stopping_patience is an integer between 0 and the
\* configured early_stopping_patience.
C1_PatienceInRange == Patience \in 0..MaxP

\* An update call found patience already at 0 and left it there.
C1_Witness ==
    /\ pc = "mid_sched"
    /\ MaxP >= 1
    /\ prev_patience = 0
    /\ Patience = 0
    /\ valid_loss > eval_memory_bank.best_valid_loss

\* C2 (as stated): once patience is 0 at any point of run, it is never positive again and
\* no further training pass is started.
C2_ZeroIsTerminal ==
    [][Patience = 0 => (Patience' = 0 /\ ~(pc = "loop" /\ pc' = "train"))]_vars

\* C2 (amended): once patience is 0 when the loop is at the head of an epoch beyond
\* burn-in (after an end-of-epoch update, or with no epoch left), patience stays 0 and run
\* ends without starting a training pass.
Stopped ==
    /\ Patience = 0
    /\ \/ pc = "done"
       \/ pc = "loop" /\ epoch > burning_epoch

C2_ZeroAtLoopHeadIsTerminal ==
    [][Stopped => (Stopped' /\ pc' = "done")]_vars

\* An end-of-epoch update brought patience from 1 to 0, with a further epoch, beyond
\* burn-in, still to come.
C2_Witness ==
    /\ pc = "loop"
    /\ epoch > burning_epoch
    /\ epoch < train_memory_bank.total_epochs
    /\ prev_patience = 1
    /\ Patience = 0

\* C3: when an epoch beyond burn-in begins with patience 0, run leaves the loop at once:
\* no training pass, evaluation, update, optimizer step, scheduler step or checkpoint write
\* follows, and n_steps and the evaluation record keep their values.
C3_BreakAtZero ==
    /\ [][(/\ pc = "loop"
           /\ epoch < train_memory_bank.total_epochs
           /\ epoch > burning_epoch
           /\ Patience = 0)
          => (/\ pc' = "done"
              /\ UNCHANGED <<eval_memory_bank, checkpoints, model, sched_steps, written,
                             epoch_updates>>
              /\ train_memory_bank'.n_steps = train_memory_bank.n_steps)]_vars
    /\ [][pc # "done"]_vars

\* run has stopped early: the last epoch entered, one beyond burn-in, ran no batch.
C3_Witness ==
    /\ pc = "done"
    /\ Patience = 0
    /\ MaxP >= 1
    /\ train_memory_bank.n_epoch > burning_epoch
    /\ train_memory_bank.n_steps = train_memory_bank.n_epoch * train_len

\* C4: in an epoch <= burning_epoch, until the epoch's first update call the record holds
\* best_valid_loss = inf, best_valid_acc = 0 and full patience, and that first update
\* leaves a record and a checkpoint that are functions of its own arguments alone.
C4_BurnInReset ==
    /\ [](( /\ pc \in InEpoch
            /\ train_memory_bank.n_epoch <= burning_epoch
            /\ epoch_updates = 0)
          => (/\ eval_memory_bank.best_valid_loss = Inf
              /\ eval_memory_bank.best_valid_acc = 0
              /\ Patience = MaxP))
    /\ [][(/\ pc \in UpdatePcs
           /\ train_memory_bank.n_epoch <= burning_epoch
           /\ epoch_updates = 0)
          => (/\ eval_memory_bank' =
                    [best_valid_loss |-> valid_loss, acc_valid_loss |-> valid_loss,
                     best_valid_acc |-> valid_acc,
                     best_valid_epoch |-> train_memory_bank.n_epoch,
                     best_train_step |-> train_memory_bank.n_steps,
                     early_stopping_patience |-> MaxP]
              /\ written' = {IF args.valid_criterion = "LOSS" THEN "loss" ELSE "acc"})]_vars

\* A burn-in epoch after the first is about to make its first update, the previous epoch
\* having ended on a non-improving update with a better accuracy on record.
C4_Witness ==
    /\ pc \in UpdatePcs
    /\ train_memory_bank.n_epoch >= 1
    /\ train_memory_bank.n_epoch <= burning_epoch
    /\ epoch_updates = 0
    /\ streak >= 1
    /\ prev_patience > 0

\* C5 (as stated): with configured patience P >= 1, after P consecutive non-improving
\* updates made in an epoch beyond burn-in, no later epoch's training pass is completed.
C5_NoLaterPass ==
    ~(/\ spent # NoValue
      /\ spent > burning_epoch
      /\ train_memory_bank.n_epoch > spent
      /\ pc = "end_valid")

\* C5 (amended): with configured patience P >= 1, after P consecutive non-improving
\* updates patience is 0; and when the last of them is the end-of-epoch update and the next
\* epoch is beyond burn-in, run ends without starting another training pass.
C5_StreakStops ==
    /\ [][(pc \in UpdatePcs /\ MaxP >= 1 /\ streak' >= MaxP) => Patience' = 0]_vars
    /\ [][(/\ MaxP >= 1
           /\ streak >= MaxP
           /\ pc = "loop"
           /\ epoch > burning_epoch)
          => pc' = "done"]_vars

\* Patience 2 is used up by two non-improving updates in a row and run has stopped at the
\* head of the next epoch, which ran no batch.
C5_Witness ==
    /\ pc = "done"
    /\ MaxP = 2
    /\ streak = 2
    /\ train_memory_bank.n_epoch > burning_epoch
    /\ train_memory_bank.n_steps = train_memory_bank.n_epoch * train_len

\* C6: an update call with valid_loss <= best_valid_loss sets best_valid_loss to
\* valid_loss and patience to the configured maximum, whatever the accuracy branch does;
\* with valid_loss < best_valid_loss and valid_acc = best_valid_acc the accuracy branch
\* fires as well.
C6_LossImproved ==
    /\ [][(pc \in UpdatePcs /\ valid_loss <= eval_memory_bank.best_valid_loss)
          => (/\ eval_memory_bank'.best_valid_loss = valid_loss
              /\ Patience' = MaxP)]_vars
    /\ [][(/\ pc \in UpdatePcs
           /\ valid_loss < eval_memory_bank.best_valid_loss
           /\ valid_acc = eval_memory_bank.best_valid_acc)
          => (/\ Patience' = MaxP
              /\ eval_memory_bank'.best_valid_acc = valid_acc
              /\ eval_memory_bank'.acc_valid_loss = valid_loss
              /\ eval_memory_bank'.best_valid_epoch = train_memory_bank.n_epoch
              /\ eval_memory_bank'.best_train_step = train_memory_bank.n_steps)]_vars

\* A mid-epoch update with a loss no worse than the best has restored a patience that was
\* 0, and its accuracy tied or beat the best.
C6_Witness ==
    /\ pc = "mid_sched"
    /\ prev_patience = 0
    /\ MaxP = 2
    /\ Patience = MaxP
    /\ eval_memory_bank.best_valid_loss = valid_loss
    /\ eval_memory_bank.best_train_step = train_memory_bank.n_steps

\* C7 (as stated): an update call with valid_loss > best_valid_loss and
\* valid_acc < best_valid_acc writes no checkpoint and leaves patience exactly one less.
C7_DecrementsByOne ==
    [][(/\ pc \in UpdatePcs
        /\ valid_loss > eval_memory_bank.best_valid_loss
        /\ valid_acc < eval_memory_bank.best_valid_acc)
       => (/\ written' = {}
           /\ checkpoints' = checkpoints
           /\ Patience' = Patience - 1)]_vars

\* C7 (amended): such a call writes no checkpoint and leaves patience one less, except
\* that a patience of 0 stays 0.
C7_DecrementsToFloor ==
    [][(/\ pc \in UpdatePcs
        /\ valid_loss > eval_memory_bank.best_valid_loss
        /\ valid_acc < eval_memory_bank.best_valid_acc)
       => (/\ written' = {}
           /\ checkpoints' = checkpoints
           /\ Patience' = (IF Patience = 0 THEN 0 ELSE Patience - 1))]_vars

\* A mid-epoch update worse on both metrics took patience from 2 to 1.
C7_Witness ==
    /\ pc = "mid_sched"
    /\ valid_loss > eval_memory_bank.best_valid_loss
    /\ valid_acc < eval_memory_bank.best_valid_acc
    /\ prev_patience = 2
    /\ Patience = 1
    /\ written = {}

\* C8 (as stated): for some criterion, some record this Trainer can hold and some
\* (valid_loss, valid_acc), one update call writes 0 checkpoints, for some 1, and for
\* some 2.
RecordSpace(patience) ==
    [best_valid_loss : Losses \cup {Inf}, acc_valid_loss : Losses \cup {Inf},
     best_valid_acc : Accs \cup {NoValue}, best_valid_epoch : {NoValue},
     best_train_step : {NoValue}, early_stopping_patience : 0..patience]

C8_ZeroOneOrTwoWrites ==
    \A n \in 0..2 :
        \E c \in Criteria, emb \in RecordSpace(MaxP), l \in Losses, a \in Accs :
            Cardinality(UpdateWrites(c, emb, MaxP, l, a)) = n

\* C8 (amended): both branches are evaluated on every update call, each on its own
\* comparison, and a call writes zero or one checkpoint, never two: only the file of the
\* configured criterion can be written.
C8_AtMostOneWrite ==
    /\ [](Cardinality(written) <= 1)
    /\ [][(pc \in UpdatePcs)
          => (/\ eval_memory_bank'.best_valid_loss =
                    (IF valid_loss <= eval_memory_bank.best_valid_loss
                     THEN valid_loss ELSE eval_memory_bank.best_valid_loss)
              /\ eval_memory_bank'.best_valid_acc =
                    (IF valid_acc >= eval_memory_bank.best_valid_acc
                     THEN valid_acc ELSE eval_memory_bank.best_valid_acc)
              /\ written' \subseteq
                    {IF args.valid_criterion = "LOSS" THEN "loss" ELSE "acc"})]_vars

\* Both branches of a mid-epoch update fired (the loss had been worse before) and one
\* file was written.
C8_Witness ==
    /\ pc = "mid_sched"
    /\ sched_steps >= 1
    /\ eval_memory_bank.best_valid_loss = valid_loss
    /\ streak = 0
    /\ eval_memory_bank.best_train_step = train_memory_bank.n_steps
    /\ Cardinality(written) = 1

\* C9: only update writes checkpoints; a call writes the best-by-loss file iff the
\* criterion is LOSS and valid_loss <= best_valid_loss, the best-by-accuracy file iff the
\* criterion is ACC and valid_acc >= best_valid_acc (values before the call), and a
\* written file holds the model's current parameters.
C9_CheckpointWrites ==
    [][IF pc \in UpdatePcs
       THEN /\ ("loss" \in written') <=>
                  (/\ args.valid_criterion = "LOSS"
                   /\ valid_loss <= eval_memory_bank.best_valid_loss)
            /\ ("acc" \in written') <=>
                  (/\ args.valid_criterion = "ACC"
                   /\ valid_acc >= eval_memory_bank.best_valid_acc)
            /\ \A k \in {"loss", "acc"} :
                  checkpoints'[k] = (IF k \in written' THEN model.params ELSE checkpoints[k])
       ELSE /\ checkpoints' = checkpoints
            /\ written' = written]_vars

\* A second mid-epoch update has overwritten the best-by-loss file on a tie.
C9_Witness ==
    /\ pc = "mid_sched"
    /\ sched_steps >= 1
    /\ args.valid_criterion = "LOSS"
    /\ written = {"loss"}
    /\ checkpoints.loss = model.params
    /\ prev_patience = MaxP
    /\ MaxP >= 1

\* C10: whenever a batch of a training pass brings n_steps to a positive multiple of
\* 10 * report_interval, the pass goes on to the validation evaluation (then the test
\* evaluation, update and the scheduler step) before the next batch.
C10_EvalEveryTenIntervals ==
    [][(/\ pc = "train"
        /\ train_memory_bank'.n_steps = train_memory_bank.n_steps + 1
        /\ train_memory_bank'.n_steps % (10 * train_memory_bank.report_interval) = 0)
       => pc' = "mid_valid"]_vars

\* ---- Trainer.matching, lines 291-318 ----
\* trg_field.vocab.itos: the token of every index
Itos == <<"<eos>", "a", "b", "ab">>

Rows == [1..MaxLen -> 1..Len(Itos)]

\* lines 297-303 and 307-313: the tokens of a row up to its first <eos>
RECURSIVE Toks(_)
Toks(row) ==
    IF row = <<>> THEN <<>>
    ELSE LET tok == Itos[Head(row)]
         IN  IF tok = "<eos>" THEN <<>> ELSE <<tok>> \o Toks(Tail(row))

\* lines 304 and 314: ''.join
RECURSIVE Join(_)
Join(toks) == IF toks = <<>> THEN "" ELSE Head(toks) \o Join(Tail(toks))

\* A Trainer that is not running; matching is called on a batch of 1..MaxRows rows.
InitMatch ==
    /\ Construct({0}, {1})
    /\ args = [valid_criterion |-> "LOSS", early_stopping_patience |-> 0]
    /\ burning_epoch = -1
    /\ train_memory_bank.report_interval = 1
    /\ task = "Single-Main"
    /\ pc = "matching"
    /\ shape \in 1..MaxRows
    /\ j = 0
    /\ pred_j = <<>>
    /\ ref_j = <<>>
    /\ tally = 0
    /\ same = 0

\* lines 294-317: one turn of the loop, on the rows p and r
MatchRow ==
    /\ pc = "matching"
    /\ j < shape
    /\ \E p \in Rows, r \in Rows :
          /\ pred_j' = p
          /\ ref_j' = r
          /\ tally' = IF Join(Toks(p)) = Join(Toks(r)) THEN tally + 1 ELSE tally
          /\ same' = IF Toks(p) = Toks(r) THEN same + 1 ELSE same
    /\ j' = j + 1
    /\ UNCHANGED <<args, train_len, burning_epoch, eval_memory_bank, train_memory_bank, tfr,
                   model, sched_steps, checkpoints, pc, epoch, i, valid_loss, valid_acc,
                   history>>
    /\ UNCHANGED <<task, shape, aux_record, valid_acc_aux, ratio_before, seen>>

\* line 318
MatchReturn ==
    /\ pc = "matching"
    /\ j = shape
    /\ pc' = "matched"
    /\ UNCHANGED <<args, train_len, burning_epoch, eval_memory_bank, train_memory_bank, tfr,
                   model, sched_steps, checkpoints, epoch, i, valid_loss, valid_acc,
                   history>>
    /\ UNCHANGED <<fixed, aux_record, valid_acc_aux, ratio_before, seen>>

NextMatch ==
    \/ MatchRow
    \/ MatchReturn

SpecMatch == InitMatch /\ [][NextMatch]_vars

\* ---- Properties of matching ----
\* C13: matching returns the number of rows whose token sequence before the first <eos>
\* is the same, token for token, in pred and in ref, whatever the vocabulary.
C13_CountsEqualTokenRows == (pc = "matched") => tally = same

\* ---- Properties of the interruptible run ----
EvaluatePcs == {"mid_valid", "mid_test", "end_valid"}

\* C11: every exit from evaluate, an interrupt raised during the pass included, leaves the
\* model with the teacher-forcing ratio it had before the call.
C11_RatioRestored ==
    [][(pc \in EvaluatePcs) =>
          model'.teacher_forcing_ratio = model.teacher_forcing_ratio]_vars

\* ---- Properties of the long run ----
\* max(80 - 3e, 20): the ratio of epoch e, in percent
RatioOfEpoch(e) == IF 80 - 3 * e > 20 THEN 80 - 3 * e ELSE 20

\* C12: the training pass of every epoch e runs with the teacher-forcing ratio
\* max(80 - 3e, 20) / 100; from one epoch to the next the ratio never rises, and it is
\* never below 0.2.
C12_TeacherForcing ==
    [][/\ (pc = "loop" /\ pc' = "train") =>
              /\ tfr' = RatioOfEpoch(train_memory_bank'.n_epoch)
              /\ model'.teacher_forcing_ratio = tfr'
       /\ (pc = "train") =>
              /\ model.teacher_forcing_ratio = RatioOfEpoch(train_memory_bank.n_epoch)
              /\ model.mode = "train"
       /\ tfr' <= tfr
       /\ tfr' >= 20]_vars

\* A batch has been trained at the floor, in an epoch whose unfloored ratio is below it.
C12_Witness ==
    /\ pc = "train"
    /\ i = 1
    /\ 80 - 3 * train_memory_bank.n_epoch < 20
    /\ model.teacher_forcing_ratio = 20
    /\ tfr = 20

AuxPcs == {"mid_aux", "end_aux"}

\* C14: update_aux changes no state: the evaluation record with its auxiliary fields, the
\* training counters and the checkpoint files are after the call what they were before.
C14_UpdateAuxChangesNothing ==
    [][(pc \in AuxPcs) =>
          UNCHANGED <<eval_memory_bank, aux_record, train_memory_bank, checkpoints,
                      model, tfr, sched_steps>>]_vars

\* A mid-epoch update_aux has returned on an auxiliary accuracy no worse than the best.
C14_Witness ==
    /\ pc = "mid_sched"
    /\ task = "Multi"
    /\ valid_acc_aux \in Accs
    /\ valid_acc_aux >= aux_record.best_valid_acc_aux
    /\ aux_record = AuxRecord

\* C15: an interrupt raised anywhere in run's loop ends the run: no batch, evaluation,
\* update or epoch follows it, and the step counter, the evaluation record and the
\* checkpoint files stay as they were when it was raised.
C15_InterruptStops ==
    [][/\ (pc' = "interrupted") =>
              UNCHANGED <<train_memory_bank, eval_memory_bank, aux_record, checkpoints>>
       /\ (pc = "interrupted") => UNCHANGED vars]_vars

\* The run was interrupted in its second epoch, with checkpoints of the first on disk.
C15_Witness ==
    /\ pc = "interrupted"
    /\ train_memory_bank.n_epoch = 1
    /\ 0 < i
    /\ i < train_len
    /\ train_memory_bank.n_steps = train_len + i
    /\ eval_memory_bank.best_valid_epoch = 0
    /\ \E k \in {"loss", "acc"} : checkpoints[k] = train_len

\* C16 as stated: n_epoch and n_steps never decrease, every batch adds one to n_steps, and
\* n_steps is at every point the number of optimizer steps performed.
C16_StepsAreOptimizerSteps ==
    [][/\ train_memory_bank'.n_epoch >= train_memory_bank.n_epoch
       /\ train_memory_bank'.n_steps >= train_memory_bank.n_steps
       /\ (pc = "train" /\ i' = i + 1) =>
              train_memory_bank'.n_steps = train_memory_bank.n_steps + 1
       /\ model'.params = train_memory_bank'.n_steps]_vars

\* C16: n_epoch and n_steps never decrease, every batch trained to its end adds one to
\* n_steps, no epoch resets it, and n_steps is the number of optimizer steps performed,
\* or one less once the run was interrupted inside a batch after its optimizer step.
C16_CountersNeverDecrease ==
    [][/\ train_memory_bank'.n_epoch >= train_memory_bank.n_epoch
       /\ train_memory_bank'.n_steps \in
              {train_memory_bank.n_steps, train_memory_bank.n_steps + 1}
       /\ (pc = "train" /\ i' = i + 1) =>
              train_memory_bank'.n_steps = train_memory_bank.n_steps + 1
       /\ (pc' # "interrupted") => model'.params = train_memory_bank'.n_steps
       /\ (pc' = "interrupted") =>
              model'.params \in {train_memory_bank'.n_steps, train_memory_bank'.n_steps + 1}]_vars

\* A batch of the second epoch has been trained: n_steps goes on from the first epoch's.
C16_Witness ==
    /\ pc = "train"
    /\ train_memory_bank.n_epoch = 1
    /\ i >= 1
    /\ train_memory_bank.n_steps = train_len + i
    /\ model.params = train_memory_bank.n_steps

\* ---- Properties of the record and the checkpoints ----
Record == eval_memory_bank
Updated == seen.min_loss # Inf

\* C17: after every update call best_valid_loss is the least valid_loss and best_valid_acc
\* the greatest valid_acc passed to update since the most recent burn-in reset (or since
\* construction), and acc_valid_loss, best_valid_epoch and best_train_step are the
\* valid_loss, n_epoch and n_steps of the most recent call that set best_valid_acc.
C17_RecordIsBestSeen ==
    Updated =>
        /\ Record.best_valid_loss = seen.min_loss
        /\ Record.best_valid_acc = seen.max_acc
        /\ Record.acc_valid_loss = seen.acc_loss
        /\ Record.best_valid_epoch = seen.acc_epoch
        /\ Record.best_train_step = seen.acc_step

\* A second mid-epoch update tied the best accuracy on a loss worse than the best.
C17_Witness ==
    /\ pc = "mid_sched"
    /\ epoch_updates >= 2
    /\ Record.best_valid_loss < Record.acc_valid_loss
    /\ Record.best_train_step = train_memory_bank.n_steps
    /\ Record.best_valid_acc = valid_acc
    /\ valid_loss = Record.acc_valid_loss

CriterionFile == IF args.valid_criterion = "LOSS" THEN "loss" ELSE "acc"

\* C18: after every update call the checkpoint file of the configured criterion holds the
\* model of the most recent call that set that criterion's best value (under ACC, the
\* model at best_train_step), and the first update call of an epoch in burn-in always
\* writes that file.
C18_CheckpointInStep ==
    [][/\ Updated' =>
              /\ (args.valid_criterion = "LOSS") => checkpoints'.loss = seen'.loss_params
              /\ (args.valid_criterion = "ACC") =>
                     /\ checkpoints'.acc = seen'.acc_params
                     /\ checkpoints'.acc = Record'.best_train_step
       /\ (/\ pc \in UpdatePcs
           /\ epoch_updates = 0
           /\ train_memory_bank.n_epoch <= burning_epoch) =>
              /\ CriterionFile \in written'
              /\ checkpoints'[CriterionFile] = model.params]_vars

\* The end-of-epoch update, the first of the second burn-in epoch, wrote the criterion's
\* file on a loss above the lowest level and on the lowest accuracy.
C18_Witness ==
    /\ pc = "loop"
    /\ train_memory_bank.n_epoch = 1
    /\ burning_epoch >= 1
    /\ epoch_updates = 1
    /\ written = {CriterionFile}
    /\ checkpoints[CriterionFile] = 2 * train_len
    /\ Record.best_valid_loss > 1
    /\ Record.best_valid_acc = 0

\* C19: with a configured patience of at least 1, run does not stop early at an epoch
\* e <= burning_epoch: each such epoch below total_epochs starts its training pass, and
\* the loop is reached again only through the end-of-epoch update.
C19_NoEarlyStopInBurnIn ==
    [][/\ (/\ pc = "loop"
           /\ MaxP >= 1
           /\ epoch < train_memory_bank.total_epochs
           /\ epoch <= burning_epoch) =>
              /\ pc' = "train"
              /\ train_memory_bank'.n_epoch = epoch
       /\ (pc' = "loop") =>
              /\ pc = "end_update"
              /\ epoch_updates' >= 1]_vars

\* A burn-in epoch is being trained although the patience ran out in an earlier epoch.
C19_Witness ==
    /\ pc = "train"
    /\ i >= 1
    /\ MaxP >= 1
    /\ train_memory_bank.n_epoch >= 1
    /\ train_memory_bank.n_epoch <= burning_epoch
    /\ spent # NoValue
    /\ spent < train_memory_bank.n_epoch
    /\ streak >= MaxP

====
